---- MODULE Spec2Model ----
(***************************************************************************)
(* A model of bayesian_benchmarks/tasks/regression.py: run(ARGS, data,     *)
(* model, is_test).                                                        *)
(*                                                                         *)
(* Numbers.  Predictions, targets and residuals are exact rationals        *)
(* <<num, den>> (den > 0; den = 0 is NaN).  A root x ** 0.5 of a residual  *)
(* average is kept exactly, as the record [sq |-> x].  Log-densities are   *)
(* fixed-point numbers [nan, val] counted in 1/Unit; exp and log are       *)
(* computed in that fixed-point arithmetic.                                *)
(***************************************************************************)
EXTENDS Integers, Sequences, FiniteSets, TLC

\* ------------------------------------------------------------- bounds
\* most samples S of an ensemble prediction [S, N, D]
MaxS == 2
\* most test points N
MaxN == 2
\* most output dimensions D
MaxD == 2

\* ------------------------------------------------------------ rationals
Abs(x) == IF x < 0 THEN -x ELSE x

Max(a, b) == IF a >= b THEN a ELSE b

RECURSIVE Gcd(_, _)
Gcd(a, b) == IF b = 0 THEN a ELSE Gcd(b, a % b)

QNaN == <<0, 0>>

IsQNaN(q) == q[2] = 0

\* the rational n/d in lowest terms, d > 0
Q(n, d) ==
  IF d = 0 THEN QNaN
  ELSE LET s == IF d < 0 THEN -1 ELSE 1
           g == Gcd(Abs(n), Abs(d))
       IN  <<(s * n) \div g, (s * d) \div g>>

QAdd(a, b) == IF IsQNaN(a) \/ IsQNaN(b) THEN QNaN ELSE Q(a[1] * b[2] + b[1] * a[2], a[2] * b[2])

QSub(a, b) == IF IsQNaN(a) \/ IsQNaN(b) THEN QNaN ELSE Q(a[1] * b[2] - b[1] * a[2], a[2] * b[2])

QMul(a, b) == IF IsQNaN(a) \/ IsQNaN(b) THEN QNaN ELSE Q(a[1] * b[1], a[2] * b[2])

\* a / b; division by zero gives NaN
QDiv(a, b) == IF IsQNaN(a) \/ IsQNaN(b) THEN QNaN ELSE Q(a[1] * b[2], a[2] * b[1])

QAbs(a) == <<Abs(a[1]), a[2]>>

\* a < b; every comparison with NaN is false
QLt(a, b) == ~IsQNaN(a) /\ ~IsQNaN(b) /\ a[1] * b[2] < b[1] * a[2]

QGe(a, b) == ~IsQNaN(a) /\ ~IsQNaN(b) /\ a[1] * b[2] >= b[1] * a[2]

\* the largest r with r * r <= n
RECURSIVE ISqrtFrom(_, _)
ISqrtFrom(n, r) == IF (r + 1) * (r + 1) > n THEN r ELSE ISqrtFrom(n, r + 1)

\* x ** 0.5: NaN for a negative x, exact for the square of a rational
QSqrt(x) ==
  IF IsQNaN(x) \/ x[1] < 0 THEN QNaN
  ELSE Q(ISqrtFrom(x[1], 0), ISqrtFrom(x[2], 0))

\* --------------------------------------------------------- fixed point
Unit == 10 ^ 4

NaN == [nan |-> TRUE, val |-> 0]

F(x) == [nan |-> FALSE, val |-> x]

\* the fixed-point value of a rational >= 0, rounded down
ToFix(q) == (q[1] * Unit) \div q[2]

MulF(a, b) == (a * b) \div Unit

\* e ** (-k) for a natural k
RECURSIVE ExpNegInt(_)
ExpNegInt(k) == IF k = 0 THEN Unit ELSE MulF(3679, ExpNegInt(k - 1))

\* the Taylor series of e ** (-x), 0 <= x < 1, in Horner form from term k
RECURSIVE ExpHorner(_, _)
ExpHorner(x, k) ==
  IF k > 9 THEN Unit ELSE Unit - (MulF(x, ExpHorner(x, k + 1)) \div k)

\* np.exp(-t) for a fixed-point t >= 0
ExpNeg(t) ==
  IF t >= 20 * Unit THEN 0
  ELSE MulF(ExpNegInt(t \div Unit), ExpHorner(t % Unit, 1))

\* 2 * atanh(z) = 2 (z + z^3/3 + z^5/5 + ...), from the term z^k/k
RECURSIVE AtanhSeries(_, _, _)
AtanhSeries(z, p, k) ==
  IF k > 11 THEN 0
  ELSE (2 * p) \div k + AtanhSeries(z, MulF(MulF(p, z), z), k + 2)

\* np.log(x) for a fixed-point x > 0: halve or double into [1, 2), then
\* ln x = 2 atanh((x - 1) / (x + 1))
RECURSIVE LnFix(_)
LnFix(x) ==
  IF x >= 2 * Unit THEN 6931 + LnFix(x \div 2)
  ELSE IF x < Unit THEN LnFix(2 * x) - 6931
  ELSE LET z == ((x - Unit) * Unit) \div (x + Unit)
       IN  AtanhSeries(z, z, 1)

\* np.log of a positive rational
LnQ(q) == LnFix(q[1] * Unit) - LnFix(q[2] * Unit)

\* --------------------------------------------------------------- arrays
\* An ndarray is [shape |-> <<dims>>, data |-> [index -> element]].
RECURSIVE Indices(_)
Indices(sh) ==
  IF sh = <<>> THEN {<<>>}
  ELSE {<<a>> \o t : a \in 1..Head(sh), t \in Indices(Tail(sh))}

RECURSIVE Size(_)
Size(sh) == IF sh = <<>> THEN 1 ELSE Head(sh) * Size(Tail(sh))

\* the shape with ones put before it, up to rank r
PadTo(sh, r) ==
  [k \in 1..r |-> IF k <= r - Len(sh) THEN 1 ELSE sh[k - (r - Len(sh))]]

\* numpy's broadcasting rule: aligned from the right, each pair of
\* dimensions is equal or one of them is 1
Compatible(a, b) ==
  LET r == Max(Len(a), Len(b))
  IN  \A k \in 1..r :
        \/ PadTo(a, r)[k] = PadTo(b, r)[k]
        \/ PadTo(a, r)[k] = 1
        \/ PadTo(b, r)[k] = 1

BShape(a, b) ==
  LET r == Max(Len(a), Len(b))
  IN  [k \in 1..r |-> Max(PadTo(a, r)[k], PadTo(b, r)[k])]

\* the element of arr an index of a broadcast shape reads
At(arr, i) ==
  LET r == Len(arr.shape)
      off == Len(i) - r
  IN  arr.data[[k \in 1..r |-> IF arr.shape[k] = 1 THEN 1 ELSE i[k + off]]]

\* a - b, broadcast
Minus(a, b) ==
  LET sh == BShape(a.shape, b.shape)
  IN  [shape |-> sh, data |-> [i \in Indices(sh) |-> QSub(At(a, i), At(b, i))]]

\* a ** 0.5
Sqrt(a) == [shape |-> a.shape, data |-> [i \in DOMAIN a.data |-> QSqrt(a.data[i])]]

\* a ** 2
Square(a) == [shape |-> a.shape, data |-> [i \in DOMAIN a.data |-> QMul(a.data[i], a.data[i])]]

\* np.abs(a)
np_abs(a) == [shape |-> a.shape, data |-> [i \in DOMAIN a.data |-> QAbs(a.data[i])]]

\* a[s] for an array of rank >= 1 (s counted from 1)
Slice(a, s) ==
  LET sh == Tail(a.shape)
  IN  [shape |-> sh, data |-> [i \in Indices(sh) |-> a.data[<<s>> \o i]]]

\* a * c for a scalar c
Times(a, c) == [shape |-> a.shape, data |-> [i \in DOMAIN a.data |-> QMul(a.data[i], c)]]

RECURSIVE SumQ(_, _)
SumQ(a, I) ==
  IF I = {} THEN <<0, 1>>
  ELSE LET i == CHOOSE j \in I : TRUE
       IN  QAdd(a.data[i], SumQ(a, I \ {i}))

\* np.average / np.mean of an array of rationals
np_average(a) == QDiv(SumQ(a, DOMAIN a.data), <<Size(a.shape), 1>>)

RECURSIVE SumF(_, _)
SumF(a, I) ==
  IF I = {} THEN 0
  ELSE LET i == CHOOSE j \in I : TRUE
       IN  a.data[i].val + SumF(a, I \ {i})

\* np.average / np.mean of an array of log-densities: NaN as soon as one
\* element is NaN
np_average_f(a) ==
  IF \E i \in DOMAIN a.data : a.data[i].nan THEN NaN
  ELSE F(SumF(a, DOMAIN a.data) \div Size(a.shape))

\* np.mean(a, axis=0)
np_mean_axis0(a) ==
  LET sh == Tail(a.shape)
      S == Head(a.shape)
      Col(i) == [shape |-> <<S>>, data |-> [s \in Indices(<<S>>) |-> a.data[s \o i]]]
  IN  [shape |-> sh, data |-> [i \in Indices(sh) |-> np_average(Col(i))]]

\* ------------------------------------------------------ library calls
\* scipy.stats.norm.logpdf(x, loc, scale) for one element: NaN unless
\* scale > 0, else -z^2/2 - ln sqrt(2 pi) - ln scale with z = (x - loc)/scale
logpdf_elem(x, loc, scale) ==
  IF IsQNaN(x) \/ IsQNaN(loc) \/ IsQNaN(scale) \/ scale[1] <= 0 THEN NaN
  ELSE LET z == QDiv(QSub(x, loc), scale)
       IN  F(0 - ToFix(QDiv(QMul(z, z), <<2, 1>>)) - 9189 - LnQ(scale))

\* norm.logpdf on arrays, the three arguments broadcast together
norm_logpdf(x, loc, scale) ==
  LET sh == BShape(BShape(x.shape, loc.shape), scale.shape)
  IN  [shape |-> sh,
       data |-> [i \in Indices(sh) |-> logpdf_elem(At(x, i), At(loc, i), At(scale, i))]]

\* whether norm.logpdf(x, loc, scale) raises: the shapes do not broadcast
logpdf_raises(x, loc, scale) ==
  \/ ~Compatible(x.shape, loc.shape)
  \/ ~Compatible(BShape(x.shape, loc.shape), scale.shape)

\* np.clip(a, lo, hi); NaN passes through
clip_elem(x, lo, hi) ==
  IF x.nan THEN x
  ELSE IF x.val < lo THEN F(lo)
  ELSE IF x.val > hi THEN F(hi) ELSE x

np_clip(a, lo, hi) ==
  [shape |-> a.shape, data |-> [i \in DOMAIN a.data |-> clip_elem(a.data[i], lo, hi)]]

RECURSIVE MaxVal(_)
MaxVal(a) == IF Len(a) = 1 THEN a[1].val ELSE Max(a[1].val, MaxVal(Tail(a)))

RECURSIVE SumExp(_, _)
SumExp(a, amax) ==
  IF a = <<>> THEN 0 ELSE ExpNeg(amax - a[1].val) + SumExp(Tail(a), amax)

\* scipy.special.logsumexp of one column: log(sum(exp(a - a_max))) + a_max
logsumexp_elem(a) ==
  IF \E s \in 1..Len(a) : a[s].nan THEN NaN
  ELSE F(LnFix(SumExp(a, MaxVal(a))) + MaxVal(a))

\* logsumexp(list of arrays, axis=0)
logsumexp(list) ==
  [shape |-> list[1].shape,
   data |-> [i \in Indices(list[1].shape) |->
               logsumexp_elem([s \in 1..Len(list) |-> list[s].data[i]])]]

\* np.all(v >= 0.0)
np_all_ge0(a) == \A i \in DOMAIN a.data : QGe(a.data[i], <<0, 1>>)

\* ---------------------------------------------------------------- run
\* np.log(1e-12) = -27.6310
log_eps == -276310

\* np.log(1.0 - 1e-12) = -1.0e-12, which is 0 at the resolution 1/Unit
log_1_minus_eps == 0

MetricKeys ==
  {"test_loglik", "test_loglik_unnormalized", "test_mae",
   "test_mae_unnormalized", "test_rmse", "test_rmse_unnormalized"}

\* ARGS.__dict__, the defaults of parse_args
ARGS ==
  [model |-> "linear", dataset |-> "energy", split |-> 0, seed |-> 0,
   database_path |-> ""]

\* res['test_loglik'] = []
EmptyList == [list |-> <<>>]

\* the assertions without the one on the variance
AssertsHold_NoVarianceCheck(mm, vv) ==
  /\ Len(mm.shape) = Len(vv.shape)
  /\ Len(mm.shape) \in {2, 3}

\* the assertions without the one on the rank
AssertsHold_AnyRank(mm, vv) ==
  /\ Len(mm.shape) = Len(vv.shape)
  /\ np_all_ge0(vv)

\* the three assertions on the prediction
AssertsHold(mm, vv) ==
  /\ Len(mm.shape) = Len(vv.shape)
  /\ Len(mm.shape) \in {2, 3}
  /\ np_all_ge0(vv)

\* l: the clipped log-density of y under Normal(loc, var ** 0.5)
ClippedLogpdf(y, loc, var) ==
  np_clip(norm_logpdf(y, loc, Sqrt(var)), log_eps, log_1_minus_eps)

\* lu: the same on the de-normalized scale
ClippedLogpdfU(y, loc, var, ystd) ==
  np_clip(norm_logpdf(Times(y, ystd), Times(loc, ystd), Times(Sqrt(var), ystd)),
          log_eps, log_1_minus_eps)

\* du without the scaling
Denormalize_Unscaled(dd, ystd) == dd

\* du = d * data.Y_std
Denormalize(dd, ystd) == Times(dd, ystd)

\* the four residual metrics of the 2-dim branch, from d and du
PointResidualMetrics(dd, ddu) ==
  [test_mae |-> np_average(np_abs(dd)),
   test_mae_unnormalized |-> np_average(np_abs(ddu)),
   test_rmse |-> [sq |-> np_average(Square(dd))],
   test_rmse_unnormalized |-> [sq |-> np_average(Square(ddu))]]

\* the four residual metrics of the 3-dim branch, from d and du
EnsembleResidualMetrics(dd, ddu) ==
  [test_mae |-> np_average(np_abs(dd)),
   test_mae_unnormalized |-> np_average(np_abs(ddu)),
   test_rmse |-> [sq |-> np_average(Square(dd))],
   test_rmse_unnormalized |-> [sq |-> np_average(Square(ddu))]]

\* the branch for 2-dim predictions
PointRaises(y, mm, vv) == logpdf_raises(y, mm, vv)

PointL(y, mm, vv) == ClippedLogpdf(y, mm, vv)

PointLu(y, ystd, mm, vv) == ClippedLogpdfU(y, mm, vv, ystd)

\* d = data.Y_test - m
PointD(y, mm) == Minus(y, mm)

\* res after the branch, from the clipped l and lu
PointResOf(ll, llu, y, ystd, mm) ==
  [test_loglik |-> np_average_f(ll), test_loglik_unnormalized |-> np_average_f(llu)]
  @@ PointResidualMetrics(PointD(y, mm), Denormalize(PointD(y, mm), ystd))

PointRes(y, ystd, mm, vv) ==
  PointResOf(PointL(y, mm, vv), PointLu(y, ystd, mm, vv), y, ystd, mm)

\* the branch for 3-dim predictions
EnsembleRaises(y, mm, vv) ==
  \/ Head(vv.shape) < Head(mm.shape)
  \/ logpdf_raises(y, Slice(mm, 1), Slice(vv, 1))

\* the l appended for sample s, without the clipping
EnsembleComponent_Unclipped(y, mm, vv, s) ==
  norm_logpdf(y, Slice(mm, s), Sqrt(Slice(vv, s)))

\* the l appended for sample s
EnsembleComponent(y, mm, vv, s) == ClippedLogpdf(y, Slice(mm, s), Slice(vv, s))

EnsembleComponentU(y, ystd, mm, vv, s) ==
  ClippedLogpdfU(y, Slice(mm, s), Slice(vv, s), ystd)

\* the logarithm of one sample too many
LogSamples_OffByOne(mm) == LnFix((Head(mm.shape) + 1) * Unit)

\* np.log(m.shape[0])
LogSamples(mm) == LnFix(Head(mm.shape) * Unit)

\* logsumexp(list, axis=0) - np.log(m.shape[0])
Mixture(list, mm) ==
  LET lse == logsumexp(list)
  IN  [shape |-> lse.shape,
       data |-> [i \in DOMAIN lse.data |->
                   IF lse.data[i].nan THEN NaN ELSE F(lse.data[i].val - LogSamples(mm))]]

EnsembleL(y, mm, vv) ==
  Mixture([s \in 1..Head(mm.shape) |-> EnsembleComponent(y, mm, vv, s)], mm)

EnsembleLu(y, ystd, mm, vv) ==
  Mixture([s \in 1..Head(mm.shape) |-> EnsembleComponentU(y, ystd, mm, vv, s)], mm)

\* the residual against the first sample only
EnsembleD_FirstSample(y, mm) == Minus(y, Slice(mm, 1))

\* d = data.Y_test - np.mean(m, axis=0)
EnsembleD(y, mm) == Minus(y, np_mean_axis0(mm))

\* res after the branch, from the mixture log-densities
EnsembleResOf(ll, llu, y, ystd, mm) ==
  [test_loglik |-> np_average_f(ll), test_loglik_unnormalized |-> np_average_f(llu)]
  @@ EnsembleResidualMetrics(EnsembleD(y, mm), Denormalize(EnsembleD(y, mm), ystd))

EnsembleRes(y, ystd, mm, vv) ==
  EnsembleResOf(EnsembleL(y, mm, vv), EnsembleLu(y, ystd, mm, vv), y, ystd, mm)

\* the update done in test mode too
Merged_Always(r, test) == ARGS @@ r

\* res.update(ARGS.__dict__) unless is_test
Merged(r, test) == IF ~test THEN ARGS @@ r ELSE r

\* db.write('regression', res) unless is_test
Written(database, r, test) ==
  IF ~test THEN Append(database, [table |-> "regression", row |-> r]) ELSE database

\* -------------------------------------------------------------- inputs
Const(sh, c) == [shape |-> sh, data |-> [i \in Indices(sh) |-> c]]

FirstIndex(sh) == [k \in 1..Len(sh) |-> 1]

\* the places one deviation of a prediction covers: its first element or
\* its last; for 3-dim predictions its last element or the last test
\* point's last output in every sample
DevSets(sh) ==
  IF Len(sh) = 3
  THEN {{sh}, {<<s>> \o Tail(sh) : s \in 1..Head(sh)}}
  ELSE {{FirstIndex(sh)}, {sh}}

\* the constant arrays over Bases, and those with the elements at one
\* deviation replaced by a value of Devs
Family(sh, Bases, Devs) ==
  {Const(sh, b) : b \in Bases}
  \cup {[shape |-> sh, data |-> [i \in Indices(sh) |-> IF i \in I THEN c ELSE b]] :
          b \in Bases, I \in DevSets(sh), c \in Devs}

\* test targets [N, D]: (n + d) mod 2
YTests ==
  {[shape |-> <<N, D>>,
    data |-> [i \in Indices(<<N, D>>) |-> <<(i[1] + i[2]) % 2, 1>>]] :
     N \in 1..MaxN, D \in 1..MaxD}

YStds == {<<1, 1>>, <<2, 1>>}

MeanBases == {<<0, 1>>, <<1, 1>>}

MeanDevs == {<<9, 1>>}

VarBases == {<<1, 1>>, <<4, 1>>}

VarDevs == {<<-1, 1>>, <<0, 1>>, <<1, 16>>}

\* the shapes of a predicted mean for targets of shape <<N, D>>: ranks 1..4
MeanShapes(ysh) ==
  {<<ysh[1]>>, ysh, <<1, 1>> \o ysh} \cup {<<S>> \o ysh : S \in 1..MaxS}

\* the shapes of the variance predicted with a mean of shape sh: the same,
\* the last dimension 1 or one more, a rank less, a rank more
VarShapes(sh) ==
  {sh, [sh EXCEPT ![Len(sh)] = 1], [sh EXCEPT ![Len(sh)] = @ + 1]}
  \cup (IF Len(sh) > 1 THEN {Tail(sh)} ELSE {})
  \cup (IF Len(sh) < 4 THEN {<<1>> \o sh} ELSE {})

\* what model.predict may return.  The elements of a prediction whose
\* ranks the assertions reject are never read: such arrays are constant.
PredictionsOf(msh, vsh) ==
  IF Len(msh) = Len(vsh) /\ Len(msh) \in {2, 3}
  THEN Family(msh, MeanBases, MeanDevs) \X Family(vsh, VarBases, VarDevs)
  ELSE {Const(msh, b) : b \in MeanBases} \X {Const(vsh, c) : c \in VarBases \cup VarDevs}

Predictions(ysh) ==
  UNION {UNION {PredictionsOf(msh, vsh) : vsh \in VarShapes(msh)} : msh \in MeanShapes(ysh)}

NoArray == [shape |-> <<>>, data |-> <<>>]

\* --------------------------------------------------------------- state
VARIABLES
  pc,       \* where run is: start, assert, metrics, merge, write, done, failed
  is_test,  \* run's argument
  Y_test,   \* data.Y_test
  Y_std,    \* data.Y_std
  m,        \* the predicted mean
  v,        \* the predicted variance
  res,      \* the result dictionary
  l,        \* the log-densities averaged into res['test_loglik']
  lu,       \* the log-densities averaged into res['test_loglik_unnormalized']
  path,     \* the branch taken: none, point, ensemble
  db,       \* the rows written to the database
  err       \* the exception run ended with, or none

vars == <<pc, is_test, Y_test, Y_std, m, v, res, l, lu, path, db, err>>

Init ==
  /\ pc = "start"
  /\ is_test \in BOOLEAN
  /\ Y_test \in YTests
  /\ Y_std \in YStds
  /\ m = NoArray
  /\ v = NoArray
  /\ res = <<>>
  /\ l = NoArray
  /\ lu = NoArray
  /\ path = "none"
  /\ db = <<>>
  /\ err = "none"

\* m, v = model.predict(data.X_test)
Predict ==
  /\ pc = "start"
  /\ \E p \in Predictions(Y_test.shape) : m' = p[1] /\ v' = p[2]
  /\ pc' = "assert"
  /\ UNCHANGED <<is_test, Y_test, Y_std, res, l, lu, path, db, err>>

\* the assertions, then res = {}
Asserts ==
  /\ pc = "assert"
  /\ IF AssertsHold(m, v)
     THEN pc' = "metrics" /\ err' = err
     ELSE pc' = "failed" /\ err' = "AssertionError"
  /\ UNCHANGED <<is_test, Y_test, Y_std, m, v, res, l, lu, path, db>>

\* if len(m.shape) == 2
PointPath ==
  /\ pc = "metrics"
  /\ Len(m.shape) = 2
  /\ IF PointRaises(Y_test, m, v)
     THEN /\ pc' = "failed"
          /\ err' = "ValueError"
          /\ UNCHANGED <<res, l, lu, path>>
     ELSE /\ pc' = "merge"
          /\ path' = "point"
          /\ l' = PointL(Y_test, m, v)
          /\ lu' = PointLu(Y_test, Y_std, m, v)
          /\ res' = PointResOf(l', lu', Y_test, Y_std, m)
          /\ err' = err
  /\ UNCHANGED <<is_test, Y_test, Y_std, m, v, db>>

\* else
EnsemblePath ==
  /\ pc = "metrics"
  /\ Len(m.shape) # 2
  /\ IF EnsembleRaises(Y_test, m, v)
     THEN /\ pc' = "failed"
          /\ err' = "ValueError"
          /\ path' = "ensemble"
          /\ res' = [test_loglik |-> EmptyList, test_loglik_unnormalized |-> EmptyList]
          /\ UNCHANGED <<l, lu>>
     ELSE /\ pc' = "merge"
          /\ path' = "ensemble"
          /\ l' = EnsembleL(Y_test, m, v)
          /\ lu' = EnsembleLu(Y_test, Y_std, m, v)
          /\ res' = EnsembleResOf(l', lu', Y_test, Y_std, m)
          /\ err' = err
  /\ UNCHANGED <<is_test, Y_test, Y_std, m, v, db>>

\* if not is_test: res.update(ARGS.__dict__)
Merge ==
  /\ pc = "merge"
  /\ res' = Merged(res, is_test)
  /\ pc' = "write"
  /\ UNCHANGED <<is_test, Y_test, Y_std, m, v, l, lu, path, db, err>>

\* if not is_test: db.write('regression', res); return res
Write ==
  /\ pc = "write"
  /\ db' = Written(db, res, is_test)
  /\ pc' = "done"
  /\ UNCHANGED <<is_test, Y_test, Y_std, m, v, res, l, lu, path, err>>

Next == Predict \/ Asserts \/ PointPath \/ EnsemblePath \/ Merge \/ Write

Spec == Init /\ [][Next]_vars

\* -------------------------------------------------------------- claims
Rank(a) == Len(a.shape)

MetricsDone == pc \in {"merge", "write", "done"}

PastAsserts == pc \in {"metrics", "merge", "write", "done", "failed"}

HasNegative(a) == \E i \in DOMAIN a.data : QLt(a.data[i], <<0, 1>>)

HasZero(a) == \E i \in DOMAIN a.data : a.data[i] = <<0, 1>>

\* no key of res holds a metric value
NoMetricComputed == \A k \in DOMAIN res \cap MetricKeys : res[k] = EmptyList

HasConfig(r) == DOMAIN ARGS \cap DOMAIN r # {}

InClipRange(x) == ~x.nan /\ log_eps <= x.val /\ x.val <= log_1_minus_eps

Samples == Head(m.shape)

IdenticalComponents ==
  \A s \in 1..Samples : Slice(m, s) = Slice(m, 1) /\ Slice(v, s) = Slice(v, 1)

\* C1: a prediction whose mean and variance have different shapes ends in
\* a failure, with no metric computed or returned.
C1_DifferentShapesRejected ==
  (m.shape # v.shape /\ pc \in {"merge", "write", "done", "failed"})
    => (pc = "failed" /\ NoMetricComputed /\ db = <<>>)

\* C2: with a negative element in the predicted variance the run fails at
\* the assertions: no metric is assigned, nothing is merged, nothing is
\* written to the database.
C2_NegativeVarianceRejected ==
  HasNegative(v) =>
    /\ pc \in {"assert", "failed"}
    /\ pc = "failed" => err = "AssertionError"
    /\ res = <<>>
    /\ path = "none"
    /\ db = <<>>

C2_Witness ==
  /\ pc = "failed"
  /\ HasNegative(v)
  /\ Rank(m) = Rank(v)
  /\ Rank(m) \in {2, 3}

\* C3: for a mean and a variance of the same shape, of rank 2 or 3, with
\* every variance >= 0 (0 included), the evaluation yields exactly the six
\* metric keys, each with a finite scalar.
C3_SixFiniteMetrics ==
  (pc = "merge" /\ m.shape = v.shape /\ Rank(m) \in {2, 3} /\ np_all_ge0(v)) =>
    /\ DOMAIN res = MetricKeys
    /\ ~res.test_loglik.nan
    /\ ~res.test_loglik_unnormalized.nan
    /\ ~IsQNaN(res.test_mae)
    /\ ~IsQNaN(res.test_mae_unnormalized)
    /\ ~IsQNaN(res.test_rmse.sq)
    /\ ~IsQNaN(res.test_rmse_unnormalized.sq)

\* C4: in both branches every log-density that enters an average, on both
\* scales, lies within [log_eps, log_1_minus_eps], and so do test_loglik
\* and test_loglik_unnormalized.
C4_LogDensitiesWithinClipRange ==
  MetricsDone =>
    /\ \A i \in DOMAIN l.data : InClipRange(l.data[i])
    /\ \A i \in DOMAIN lu.data : InClipRange(lu.data[i])
    /\ InClipRange(res.test_loglik)
    /\ InClipRange(res.test_loglik_unnormalized)

\* C5: an ensemble prediction of one sample, [1, N, D], has the
\* test_loglik and test_loglik_unnormalized the 2-dim branch gives for its
\* only sample [N, D].
C5_OneSampleEqualsPoint ==
  (pc = "done" /\ path = "ensemble" /\ Samples = 1) =>
    /\ res.test_loglik = PointRes(Y_test, Y_std, Slice(m, 1), Slice(v, 1)).test_loglik
    /\ res.test_loglik_unnormalized
         = PointRes(Y_test, Y_std, Slice(m, 1), Slice(v, 1)).test_loglik_unnormalized

C5_Witness ==
  /\ pc = "done"
  /\ path = "ensemble"
  /\ Samples = 1
  /\ ~res.test_loglik.nan
  /\ \E i \in DOMAIN l.data : l.data[i].val \notin {log_eps, log_1_minus_eps}

\* C6: an ensemble of S identical samples, S >= 1, has the test_loglik
\* and test_loglik_unnormalized of one of them, clipped log-densities
\* included.
C6_IdenticalSamplesEqualOne ==
  (pc = "done" /\ path = "ensemble" /\ IdenticalComponents) =>
    LET one == PointRes(Y_test, Y_std, Slice(m, 1), Slice(v, 1))
    IN  /\ res.test_loglik = one.test_loglik
        /\ res.test_loglik_unnormalized = one.test_loglik_unnormalized

C6_Witness ==
  /\ pc = "done"
  /\ path = "ensemble"
  /\ Samples >= 2
  /\ IdenticalComponents
  /\ \E i \in DOMAIN l.data : l.data[i] = F(log_eps)
  /\ \E i \in DOMAIN l.data : ~l.data[i].nan /\ l.data[i].val > log_eps

\* C7: with a scalar Y_std, in both branches, test_rmse_unnormalized is
\* test_rmse * Y_std: mean(du^2) = Y_std^2 * mean(d^2).
C7_RmseScalesWithYStd ==
  pc = "done" =>
    res.test_rmse_unnormalized.sq = QMul(res.test_rmse.sq, QMul(Y_std, Y_std))

C7_Witness ==
  /\ pc = "done"
  /\ path = "ensemble"
  /\ Y_std = <<2, 1>>
  /\ res.test_rmse.sq # <<0, 1>>

\* C8: the merge of the configuration and the write to the 'regression'
\* table happen only when is_test is false, after the six metrics, the
\* merge before the write; in test mode the result has the six metric keys
\* only; after a failure neither has happened.
C8_MergeAndWriteOnlyOutsideTests ==
  /\ HasConfig(res) => (~is_test /\ pc \in {"write", "done"} /\ DOMAIN res = MetricKeys \cup DOMAIN ARGS)
  /\ db # <<>> =>
       /\ ~is_test
       /\ pc = "done"
       /\ db = <<[table |-> "regression", row |-> res]>>
       /\ DOMAIN res = MetricKeys \cup DOMAIN ARGS
  /\ (pc = "done" /\ ~is_test) => (HasConfig(res) /\ Len(db) = 1)
  /\ (pc = "done" /\ is_test) => (DOMAIN res = MetricKeys /\ db = <<>>)
  /\ pc = "failed" => (~HasConfig(res) /\ db = <<>>)

C8_Witness == pc = "done" /\ ~is_test /\ Len(db) = 1 /\ HasConfig(db[1].row)

\* C9: a prediction whose rank is not 2 or 3, or whose mean and variance
\* differ in rank, is rejected by an assertion before any metric; rank 2
\* takes the point branch, rank 3 the ensemble branch, no other rank
\* reaches either.
C9_RankSelectsThePath ==
  /\ (PastAsserts /\ (Rank(m) # Rank(v) \/ Rank(m) \notin {2, 3})) =>
       (pc = "failed" /\ err = "AssertionError" /\ res = <<>> /\ path = "none")
  /\ path = "point" => Rank(m) = 2
  /\ path = "ensemble" => Rank(m) = 3
  /\ MetricsDone => path = (IF Rank(m) = 2 THEN "point" ELSE "ensemble")

C9_Witness == pc = "failed" /\ Rank(m) = Rank(v) /\ Rank(m) = 4

\* the sum of m[s][i] over the samples s = 1..k
RECURSIVE C10_SumOfMeans(_, _)
C10_SumOfMeans(i, k) ==
  IF k = 0 THEN <<0, 1>> ELSE QAdd(m.data[<<k>> \o i], C10_SumOfMeans(i, k - 1))

\* Y_test minus the arithmetic mean of the component means
C10_d ==
  [shape |-> Y_test.shape,
   data |-> [i \in Indices(Y_test.shape) |->
               QSub(Y_test.data[i], QDiv(C10_SumOfMeans(i, Samples), <<Samples, 1>>))]]

\* C10: in the ensemble branch d = Y_test - mean over s of mean[s],
\* du = d * Y_std, and the four residual metrics come from d and du by the
\* formulas of the point branch; the variances play no part.
C10_EnsembleResiduals ==
  (pc = "done" /\ path = "ensemble") =>
    LET want == PointResidualMetrics(C10_d, Times(C10_d, Y_std))
    IN  /\ res.test_mae = want.test_mae
        /\ res.test_mae_unnormalized = want.test_mae_unnormalized
        /\ res.test_rmse = want.test_rmse
        /\ res.test_rmse_unnormalized = want.test_rmse_unnormalized

C10_Witness ==
  /\ pc = "done"
  /\ path = "ensemble"
  /\ Samples >= 2
  /\ Slice(m, 1) # Slice(m, Samples)
  /\ Slice(v, 1) # Slice(v, Samples)
  /\ res.test_mae # <<0, 1>>

\* the values that are not NaN stay within the clip range
ClipRangeUnlessNaN ==
  MetricsDone =>
    /\ \A i \in DOMAIN l.data : l.data[i].nan \/ InClipRange(l.data[i])
    /\ \A i \in DOMAIN lu.data : lu.data[i].nan \/ InClipRange(lu.data[i])

\* NaN comes from a zero variance only
NaNOnlyFromZeroVariance ==
  (MetricsDone /\ (res.test_loglik.nan \/ res.test_loglik_unnormalized.nan)) => HasZero(v)

====
